---- MODULE Spec2Model ----
(***************************************************************************)
(* A model of image_manipulation/image_conversions.go: the resolution of   *)
(* the ascii-art dimensions from the sizing arguments and the terminal     *)
(* size (ConvertToAsciiPixels, lines 46-159), the sampling of the resized  *)
(* image into AsciiPixel values (lines 161-194) and the mirroring of the   *)
(* sampled grid (reverse, lines 204-221).                                  *)
(*                                                                         *)
(* Two collaborators are not part of the file.  imaging.Resize is modelled *)
(* by the size of the image it returns (Resize below); the colours the     *)
(* Lanczos filter produces are abstracted by a test pattern over a small   *)
(* palette (At below).  winsize.GetTerminalSize is modelled by the value   *)
(* it returns, chosen in Init.                                             *)
(***************************************************************************)
EXTENDS Integers, Sequences, FiniteSets

VARIABLES
    pc,           \* "ready" before the call, "done" after it returned
    img,          \* the source image: [w, h], its bounds
    term,         \* what winsize.GetTerminalSize returns: [ok, w, h]
    args,         \* the arguments of the last call of ConvertToAsciiPixels
    err,          \* the error returned: "none" for nil
    resolved,     \* <<asciiWidth, asciiHeight>> before resizeForBraille
    asciiWidth,   \* asciiWidth as passed to the final imaging.Resize
    asciiHeight,  \* asciiHeight as passed to the final imaging.Resize
    smallImg,     \* <<width, height>> of the bounds of smallImg
    imgSet,       \* the returned [][]AsciiPixel (<<>> for nil)
    prev,         \* <<>>, or [height, width] of an earlier height-driven call
    grid0,        \* mirroring only: the grid before any reverse
    flips         \* mirroring only: the <<flipX, flipY>> pairs applied so far

vars == <<pc, img, term, args, err, resolved, asciiWidth, asciiHeight,
          smallImg, imgSet, prev, grid0, flips>>

(***************************************************************************)
(* Bounds of the model.                                                    *)
(***************************************************************************)
MaxImgW == 3
MaxImgH == 3
MaxTermW == 5
MaxTermH == 2
MaxWidth == 5
MaxHeight == 2
MaxRows == 3
MaxCols == 3
MaxFlips == 2

Max(a, b) == IF a >= b THEN a ELSE b

(***************************************************************************)
(* imaging.Resize(img, width, height, filter), by the size of its result.  *)
(* A negative size, two zero sizes or an empty source give an empty image; *)
(* a single zero size is derived from the other one and the aspect ratio   *)
(* of the source, rounded half up, at least 1 pixel.                       *)
(***************************************************************************)
RoundDiv(n, d) == (2 * n + d) \div (2 * d)

Resize(src, width, height) ==
    IF width < 0 \/ height < 0 THEN <<0, 0>>
    ELSE IF width = 0 /\ height = 0 THEN <<0, 0>>
    ELSE IF src.w <= 0 \/ src.h <= 0 THEN <<0, 0>>
    ELSE LET dstW == IF width = 0
                     THEN Max(1, RoundDiv(height * src.w, src.h))
                     ELSE width
             dstH == IF height = 0
                     THEN Max(1, RoundDiv(dstW * src.h, src.w))
                     ELSE height
         IN  <<dstW, dstH>>

(***************************************************************************)
(* resizeForBraille, line 34.                                              *)
(***************************************************************************)
resizeForBraille(w, h) == <<w * 2, h * 4>>

BrailleScaled(isBraille, w, h) ==
    IF isBraille THEN resizeForBraille(w, h) ELSE <<w, h>>

(***************************************************************************)
(* The arithmetic of the size resolution.                                  *)
(***************************************************************************)
\* variant: the height without the 0.5 correction
HalfHeightUncorrected(h) == h
\* int(0.5 * float64(asciiHeight)), asciiHeight >= 0
HalfHeight(h) == h \div 2

\* int(2 * float64(asciiWidth))
DoubleWidth(w) == 2 * w

\* if asciiHeight == 0 { asciiHeight = 1 }
ClampHeight(h) == IF h = 0 THEN 1 ELSE h

\* variant: the whole terminal width
FullWidthWhole(terminalWidth) == terminalWidth
\* asciiWidth = terminalWidth - 1
FullWidth(terminalWidth) == terminalWidth - 1

\* variant: width = terminalWidth accepted
SetWidthTooLargeOffByOne(width, terminalWidth) == width > terminalWidth
\* if width > terminalWidth-1
SetWidthTooLarge(width, terminalWidth) == width > terminalWidth - 1

\* variant: asciiWidth = terminalWidth accepted
CalculatedWidthTooLargeOffByOne(w, terminalWidth) == w > terminalWidth
\* if asciiWidth > terminalWidth-1
CalculatedWidthTooLarge(w, terminalWidth) == w > terminalWidth - 1

\* variant: no fallback when asciiWidth = terminalWidth
ExceedsTerminalStrict(w, terminalWidth) == w > terminalWidth
\* if asciiWidth >= terminalWidth
ExceedsTerminal(w, terminalWidth) == w >= terminalWidth

\* if len(dimensions) > 0 && !full { if dimensions[0] > terminalWidth-1
DimensionsTooWide(a, terminalWidth) ==
    Len(a.dimensions) > 0 /\ ~a.full /\ a.dimensions[1] > terminalWidth - 1

(***************************************************************************)
(* The branch of the if / else-if chain of lines 56, 71, 114 and 142.      *)
(***************************************************************************)
\* variant: line 71 without len(dimensions) == 0
SizingBranchIgnoringDimensions(a) ==
    IF a.full THEN "full"
    ELSE IF a.width # 0 \/ a.height # 0 THEN "single"
    ELSE IF Len(a.dimensions) = 0 THEN "auto"
    ELSE "dimensions"

SizingBranch(a) ==
    IF a.full THEN "full"
    ELSE IF (a.width # 0 \/ a.height # 0) /\ Len(a.dimensions) = 0 THEN "single"
    ELSE IF Len(a.dimensions) = 0 THEN "auto"
    ELSE "dimensions"

(***************************************************************************)
(* The inner chain of lines 78, 91 and 105.                                *)
(***************************************************************************)
\* variant: line 91 without width == 0
AxisCaseHeightWins(width, height) ==
    IF width # 0 /\ height = 0 THEN "width"
    ELSE IF height # 0 THEN "height"
    ELSE "both"

AxisCase(width, height) ==
    IF width # 0 /\ height = 0 THEN "width"
    ELSE IF height # 0 /\ width = 0 THEN "height"
    ELSE "both"

(***************************************************************************)
(* The errors ConvertToAsciiPixels returns, by their messages, and the     *)
(* kind of failure each message stands for.                                *)
(***************************************************************************)
NoError == "none"
ErrTerminal == "GetTerminalSize failed"
ErrSetWidth == "set width must be lower than terminal width"
ErrCalculatedWidth == "width calculated with aspect ratio exceeds terminal width"
ErrBothSet == "both width and height can't be set. Use dimensions instead"

ErrorKind(e) ==
    IF e = NoError THEN "none"
    ELSE IF e = ErrTerminal THEN "GeometryUnavailable"
    ELSE IF e = ErrBothSet THEN "InvalidRequest"
    ELSE "ConstraintViolation"

Sized(pre, final) == [err |-> NoError, resolved |-> pre, final |-> final]
Failed(e) == [err |-> e, resolved |-> <<0, 0>>, final |-> <<0, 0>>]

\* asciiWidth, asciiHeight resolved; if isBraille, resizeForBraille
SizedFor(a, w, h) == Sized(<<w, h>>, BrailleScaled(a.isBraille, w, h))

(***************************************************************************)
(* Lines 56-69: full.                                                      *)
(***************************************************************************)
SizeFullAt(src, a, w) == SizedFor(a, w, HalfHeight(Resize(src, w, 0)[2]))

SizeFull(src, t, a) == SizeFullAt(src, a, FullWidth(t.w))

(***************************************************************************)
(* Lines 71-112: width or height set, no dimensions.                       *)
(***************************************************************************)
SizeByWidth(src, t, a) ==
    SizedFor(a, a.width, ClampHeight(HalfHeight(Resize(src, a.width, 0)[2])))

SizeByHeightAt(t, a, w) ==
    IF CalculatedWidthTooLarge(w, t.w)
    THEN Failed(ErrCalculatedWidth)
    ELSE SizedFor(a, w, a.height)

SizeByHeight(src, t, a) ==
    SizeByHeightAt(t, a, DoubleWidth(Resize(src, 0, a.height)[1]))

SizeAxis(src, t, a, c) ==
    IF c = "width" THEN SizeByWidth(src, t, a)
    ELSE IF c = "height" THEN SizeByHeight(src, t, a)
    ELSE Failed(ErrBothSet)

SizeSingleAxis(src, t, a) ==
    IF SetWidthTooLarge(a.width, t.w) THEN Failed(ErrSetWidth)
    ELSE SizeAxis(src, t, a, AxisCase(a.width, a.height))

(***************************************************************************)
(* Lines 114-140: nothing set, the size follows the terminal.  w0 is the   *)
(* width derived from the terminal height.                                 *)
(***************************************************************************)
SizeAutoAt(src, t, a, w0) ==
    IF ExceedsTerminal(w0, t.w)
    THEN SizedFor(a, t.w - 1, HalfHeight(Resize(src, t.w - 1, 0)[2]))
    ELSE SizedFor(a, w0, t.h - 1)

SizeAuto(src, t, a) ==
    SizeAutoAt(src, t, a, DoubleWidth(Resize(src, 0, t.h - 1)[1]))

(***************************************************************************)
(* Lines 142-150: dimensions given.                                        *)
(***************************************************************************)
SizeDimensions(src, t, a) == SizedFor(a, a.dimensions[1], a.dimensions[2])

(***************************************************************************)
(* Lines 51-159: the size resolution as a whole.  The check of the given   *)
(* dimensions against the terminal (lines 155-159) follows the branches.   *)
(***************************************************************************)
SizeBranch(src, t, a, b) ==
    IF b = "full" THEN SizeFull(src, t, a)
    ELSE IF b = "single" THEN SizeSingleAxis(src, t, a)
    ELSE IF b = "auto" THEN SizeAuto(src, t, a)
    ELSE SizeDimensions(src, t, a)

CheckDimensions(t, a, size) ==
    IF size.err # NoError THEN size
    ELSE IF DimensionsTooWide(a, t.w) THEN Failed(ErrSetWidth)
    ELSE size

ResolveSize(src, t, a) ==
    IF ~t.ok THEN Failed(ErrTerminal)
    ELSE CheckDimensions(t, a, SizeBranch(src, t, a, SizingBranch(a)))

(***************************************************************************)
(* The pixels of the resized image.  smallImg is an *image.NRGBA; the      *)
(* colours the resampling gives it are abstracted by a pattern over        *)
(* Palette (opaque, translucent and transparent colours, no two of which   *)
(* give the same AsciiPixel), shifted by the size of the source so that    *)
(* different sources give different pixels.                                *)
(***************************************************************************)
Palette ==
    << [R |-> 10,  G |-> 20,  B |-> 30,  A |-> 0],
       [R |-> 251, G |-> 200, B |-> 3,   A |-> 129],
       [R |-> 255, G |-> 255, B |-> 255, A |-> 255],
       [R |-> 255, G |-> 0,   B |-> 0,   A |-> 255],
       [R |-> 0,   G |-> 0,   B |-> 255, A |-> 255] >>

At(src, x, y) == Palette[((x + 2 * y + src.w + 3 * src.h) % Len(Palette)) + 1]

\* color.NRGBA.RGBA(): 16-bit channels, premultiplied by alpha
RGBA(c) ==
    << (c.R * 257 * c.A) \div 255,
       (c.G * 257 * c.A) \div 255,
       (c.B * 257 * c.A) \div 255 >>

\* color.GrayModel.Convert(c).RGBA(): the luminance
\*     y = (19595*r + 38470*g + 7471*b + 1<<15) >> 24
\* widened to 16 bits (y |= y << 8).  The sum stays below 2^32, so Go's
\* uint32 does not wrap; it is taken here in a high and a low part, each
\* below 2^31, with the same quotient.
Luminance(r, g, b) ==
    LET hi == 19595 * (r \div 256) + 38470 * (g \div 256) + 7471 * (b \div 256) + 128
        lo == 19595 * (r % 256) + 38470 * (g % 256) + 7471 * (b % 256)
    IN  (hi + lo \div 256) \div 65536

Widened(y) == <<y * 257, y * 257, y * 257>>

LuminanceOf(p) == Luminance(p[1], p[2], p[3])

GrayRGBA(c) == Widened(LuminanceOf(RGBA(c)))

(***************************************************************************)
(* Lines 171-190: one AsciiPixel from one pixel of smallImg.               *)
(***************************************************************************)
DepthRatio == 257

\* variant: rounding to the nearest instead of truncating
NormalizeRounded(v) == (v + 128) \div DepthRatio
\* r1 / 257 on uint32: integer division
Normalize(v) == v \div DepthRatio

AsciiPixel(g, c) ==
    [charDepth      |-> Normalize(g[1]),
     grayscaleValue |-> <<Normalize(g[1]), Normalize(g[2]), Normalize(g[3])>>,
     rgbValue       |-> <<Normalize(c[1]), Normalize(c[2]), Normalize(c[3])>>]

ToAsciiPixel(oldPixel) == AsciiPixel(GrayRGBA(oldPixel), RGBA(oldPixel))

(***************************************************************************)
(* Lines 161-194: the rows of smallImg top to bottom, the pixels of a row  *)
(* left to right.  small is <<width, height>> of smallImg's bounds.        *)
(***************************************************************************)
SamplePixels(src, small) ==
    [y \in 1..small[2] |->
        [x \in 1..small[1] |-> ToAsciiPixel(At(src, x - 1, y - 1))]]

(***************************************************************************)
(* reverse, lines 204-221.  Both loops swap the two ends and move inwards  *)
(* (i, j = 0, len-1; i < j; i, j = i+1, j-1), here on 1-based sequences.   *)
(***************************************************************************)
\* variant: row[i] = row[j] alone
SwapOverwriting(s, i, j) == [s EXCEPT ![i] = s[j]]
\* row[i], row[j] = row[j], row[i]
Swap(s, i, j) == [s EXCEPT ![i] = s[j], ![j] = s[i]]

RECURSIVE SwapLoop(_, _, _)
SwapLoop(s, i, j) ==
    IF i < j THEN SwapLoop(Swap(s, i, j), i + 1, j - 1) ELSE s

reverseRows(set, flipX) ==
    IF flipX
    THEN [r \in 1..Len(set) |-> SwapLoop(set[r], 1, Len(set[r]))]
    ELSE set

reverseOrder(rows, flipY) ==
    IF flipY THEN SwapLoop(rows, 1, Len(rows)) ELSE rows

reverse(set, flipX, flipY) == reverseOrder(reverseRows(set, flipX), flipY)

(***************************************************************************)
(* ConvertToAsciiPixels, lines 46-202, as a whole: what it returns and the *)
(* values of its locals at the final resize.                               *)
(***************************************************************************)
Mirrored(a, sampled) ==
    IF a.flipX \/ a.flipY THEN reverse(sampled, a.flipX, a.flipY) ELSE sampled

Sampled(src, a, size, small) ==
    [err |-> NoError, resolved |-> size.resolved,
     asciiWidth |-> size.final[1], asciiHeight |-> size.final[2],
     smallImg |-> small, imgSet |-> Mirrored(a, SamplePixels(src, small))]

Resized(src, a, size) ==
    IF size.err # NoError
    THEN [err |-> size.err, resolved |-> <<0, 0>>, asciiWidth |-> 0,
          asciiHeight |-> 0, smallImg |-> <<0, 0>>, imgSet |-> <<>>]
    ELSE Sampled(src, a, size, Resize(src, size.final[1], size.final[2]))

ConvertToAsciiPixels(src, t, a) == Resized(src, a, ResolveSize(src, t, a))

(***************************************************************************)
(* The inputs.  Images are non-empty; a terminal has at least one column   *)
(* and one row, or its size cannot be read.                                *)
(***************************************************************************)
Images == [w : 1..MaxImgW, h : 1..MaxImgH]

Terminals ==
    [ok : {TRUE}, w : 1..MaxTermW, h : 1..MaxTermH]
        \cup {[ok |-> FALSE, w |-> 0, h |-> 0]}

Widths == {-1} \cup 0..MaxWidth
Heights == {-1} \cup 0..MaxHeight

\* values of width and height passed beside full or dimensions
Strays == {<<0, 0>>, <<MaxWidth, 0>>, <<0, MaxHeight>>, <<MaxWidth, MaxHeight>>}

Dimensions == {<<w, h>> : w \in 0..MaxWidth, h \in {0, MaxHeight}}

Sizings ==
    {[full |-> FALSE, dimensions |-> <<>>, width |-> w, height |-> h] :
        w \in Widths, h \in Heights}
    \cup
    {[full |-> FALSE, dimensions |-> d, width |-> s[1], height |-> s[2]] :
        d \in Dimensions, s \in Strays}
    \cup
    {[full |-> TRUE, dimensions |-> d, width |-> s[1], height |-> s[2]] :
        d \in {<<>>, <<MaxWidth, MaxHeight>>}, s \in Strays}

Request(s, fx, fy, br) ==
    [dimensions |-> s.dimensions, width |-> s.width, height |-> s.height,
     flipX |-> fx, flipY |-> fy, full |-> s.full, isBraille |-> br]

NoRequest == Request([full |-> FALSE, dimensions |-> <<>>, width |-> 0,
                      height |-> 0], FALSE, FALSE, FALSE)

(***************************************************************************)
(* The state machine: one call of ConvertToAsciiPixels, and a second call  *)
(* that passes the width a height-driven call resolved back as the width.  *)
(***************************************************************************)
Init ==
    /\ pc = "ready"
    /\ img \in Images
    /\ term \in Terminals
    /\ args = NoRequest
    /\ err = NoError
    /\ resolved = <<0, 0>>
    /\ asciiWidth = 0
    /\ asciiHeight = 0
    /\ smallImg = <<0, 0>>
    /\ imgSet = <<>>
    /\ prev = <<>>
    /\ grid0 = <<>>
    /\ flips = <<>>

Return(a, out) ==
    /\ pc' = "done"
    /\ args' = a
    /\ err' = out.err
    /\ resolved' = out.resolved
    /\ asciiWidth' = out.asciiWidth
    /\ asciiHeight' = out.asciiHeight
    /\ smallImg' = out.smallImg
    /\ imgSet' = out.imgSet
    /\ UNCHANGED <<img, term, grid0, flips>>

Call(a) == Return(a, ConvertToAsciiPixels(img, term, a))

Convert ==
    /\ pc = "ready"
    /\ \E s \in Sizings, fx \in BOOLEAN, fy \in BOOLEAN, br \in BOOLEAN :
           Call(Request(s, fx, fy, br))
    /\ prev' = <<>>

ConvertDerivedWidth ==
    /\ pc = "done"
    /\ prev = <<>>
    /\ err = NoError
    /\ SizingBranch(args) = "single"
    /\ args.width = 0
    /\ args.height > 0
    /\ Call([args EXCEPT !.width = resolved[1], !.height = 0])
    /\ prev' = [height |-> args.height, width |-> resolved[1]]

Next == Convert \/ ConvertDerivedWidth

Spec == Init /\ [][Next]_vars

(***************************************************************************)
(* reverse on its own: a grid of any shape, rows of different lengths and  *)
(* empty rows included, mirrored up to MaxFlips times.                     *)
(***************************************************************************)
Shapes == UNION {[1..n -> 0..MaxCols] : n \in 0..MaxRows}

GridOf(shape) ==
    [r \in 1..Len(shape) |->
        [c \in 1..shape[r] |-> ToAsciiPixel(At([w |-> 0, h |-> 0], c - 1, r - 1))]]

InitMirror ==
    /\ pc = "mirror"
    /\ \E shape \in Shapes : grid0 = GridOf(shape)
    /\ imgSet = grid0
    /\ flips = <<>>
    /\ img = [w |-> 0, h |-> 0]
    /\ term = [ok |-> FALSE, w |-> 0, h |-> 0]
    /\ args = NoRequest
    /\ err = NoError
    /\ resolved = <<0, 0>>
    /\ asciiWidth = 0
    /\ asciiHeight = 0
    /\ smallImg = <<0, 0>>
    /\ prev = <<>>

Mirror ==
    /\ pc = "mirror"
    /\ Len(flips) < MaxFlips
    /\ \E flipX \in BOOLEAN, flipY \in BOOLEAN :
           /\ flipX \/ flipY
           /\ imgSet' = reverse(imgSet, flipX, flipY)
           /\ flips' = Append(flips, <<flipX, flipY>>)
    /\ UNCHANGED <<pc, img, term, args, err, resolved, asciiWidth,
                   asciiHeight, smallImg, prev, grid0>>

SpecMirror == InitMirror /\ [][Mirror]_vars

(***************************************************************************)
(* The sizing modes, by the arguments of the call, and the cell unit.      *)
(***************************************************************************)
Returned == pc = "done" /\ term.ok
Succeeded == Returned /\ err = NoError
IsFill == args.full
IsByWidth ==
    ~args.full /\ Len(args.dimensions) = 0 /\ args.width # 0 /\ args.height = 0
IsByHeight ==
    ~args.full /\ Len(args.dimensions) = 0 /\ args.width = 0 /\ args.height # 0
IsBoth ==
    ~args.full /\ Len(args.dimensions) = 0 /\ args.width # 0 /\ args.height # 0
IsAuto ==
    ~args.full /\ Len(args.dimensions) = 0 /\ args.width = 0 /\ args.height = 0
IsExplicit == ~args.full /\ Len(args.dimensions) > 0

HorizontalFactor == IF args.isBraille THEN 2 ELSE 1
VerticalFactor == IF args.isBraille THEN 4 ELSE 1

NoGrid == imgSet = <<>>
GridWidthAtMost(n) == \A y \in 1..Len(imgSet) : Len(imgSet[y]) <= n
Abs(n) == IF n < 0 THEN -n ELSE n

\* the width Auto derives from the terminal height, before any fallback
AutoWidthFromHeight == 2 * Resize(img, 0, term.h - 1)[1]

(***************************************************************************)
(* C1.  A ByWidth(w) request (width = w # 0, height = 0, no dimensions,    *)
(* not full) succeeds when w <= terminal width - 1, with a grid of w       *)
(* columns (times the cell unit) when w is positive, and fails with the    *)
(* set-width error and no grid when w > terminal width - 1.                *)
(***************************************************************************)
ByWidthBound ==
    (Returned /\ IsByWidth) =>
        IF args.width <= term.w - 1
        THEN /\ ErrorKind(err) = "none"
             /\ args.width > 0 =>
                    /\ Len(imgSet) >= 1
                    /\ \A y \in 1..Len(imgSet) :
                           Len(imgSet[y]) = HorizontalFactor * args.width
        ELSE /\ ErrorKind(err) = "ConstraintViolation"
             /\ NoGrid

ByWidthAtBound ==
    /\ Returned /\ IsByWidth
    /\ args.width = term.w - 1
    /\ args.width > 0
    /\ err = NoError
    /\ Len(imgSet) >= 1

(***************************************************************************)
(* C2, as stated: a Fill request gives a grid at most terminal width - 1   *)
(* wide, whatever the cell unit.                                           *)
(***************************************************************************)
FillWidthWithinSurface ==
    (Returned /\ IsFill) =>
        /\ smallImg[1] <= term.w - 1
        /\ GridWidthAtMost(term.w - 1)

(***************************************************************************)
(* C2, amended: a Fill request resolves the width terminal width - 1       *)
(* before the cell-unit scaling, and its grid is at most the horizontal    *)
(* factor times terminal width - 1 wide.                                   *)
(***************************************************************************)
FillWidthWithinScaledSurface ==
    (Returned /\ IsFill) =>
        /\ err = NoError
        /\ resolved[1] = term.w - 1
        /\ asciiWidth = HorizontalFactor * (term.w - 1)
        /\ smallImg[1] <= HorizontalFactor * (term.w - 1)
        /\ GridWidthAtMost(HorizontalFactor * (term.w - 1))

FillBrailleWiderThanSurface ==
    /\ Returned /\ IsFill /\ args.isBraille
    /\ term.w >= 2
    /\ Len(imgSet) >= 1
    /\ Len(imgSet[1]) = 2 * (term.w - 1)

(***************************************************************************)
(* C3.  An Auto request never fails: it resolves height = terminal height  *)
(* - 1 and width = twice the natural width at that height when that width  *)
(* is below the terminal width, and otherwise width = terminal width - 1   *)
(* and height = half the natural height at that width; the width resolved  *)
(* before the cell-unit scaling is at most terminal width - 1.             *)
(***************************************************************************)
AutoResolves ==
    (Returned /\ IsAuto) =>
        /\ err = NoError
        /\ resolved[1] <= term.w - 1
        /\ IF AutoWidthFromHeight < term.w
           THEN resolved = <<AutoWidthFromHeight, term.h - 1>>
           ELSE resolved =
                    <<term.w - 1, Resize(img, term.w - 1, 0)[2] \div 2>>
        /\ asciiWidth = HorizontalFactor * resolved[1]
        /\ asciiHeight = VerticalFactor * resolved[2]

AutoFallsBackToWidth ==
    /\ Returned /\ IsAuto
    /\ AutoWidthFromHeight >= term.w
    /\ err = NoError
    /\ resolved[1] = term.w - 1
    /\ Len(imgSet) >= 1

(***************************************************************************)
(* C4.  A ByHeight(h) request (height = h # 0, width = 0, no dimensions,   *)
(* not full) derives the width twice the natural width at height h; it     *)
(* fails with a constraint violation exactly when that width exceeds       *)
(* terminal width - 1, and otherwise resolves <<derived width, h>>.        *)
(***************************************************************************)
ByHeightDerivesWidth ==
    (Returned /\ IsByHeight) =>
        LET w == 2 * Resize(img, 0, args.height)[1]
        IN  IF w > term.w - 1
            THEN ErrorKind(err) = "ConstraintViolation" /\ NoGrid
            ELSE /\ ErrorKind(err) = "none"
                 /\ resolved = <<w, args.height>>
                 /\ asciiWidth = HorizontalFactor * w
                 /\ asciiHeight = VerticalFactor * args.height

ByHeightAtBound ==
    /\ Returned /\ IsByHeight
    /\ args.height > 0
    /\ err = NoError
    /\ resolved[1] = term.w - 1
    /\ Len(imgSet) >= 1

(***************************************************************************)
(* C5.  With dimensions [w, h] and not full: w > terminal width - 1 fails  *)
(* with a constraint violation and no grid; otherwise the size resolved is *)
(* exactly <<w, h>>, times the cell unit at the final resize, whatever     *)
(* width and height were passed.                                           *)
(***************************************************************************)
ExplicitDimensionsVerbatim ==
    (Returned /\ IsExplicit) =>
        IF args.dimensions[1] > term.w - 1
        THEN ErrorKind(err) = "ConstraintViolation" /\ NoGrid
        ELSE /\ ErrorKind(err) = "none"
             /\ resolved = args.dimensions
             /\ asciiWidth = HorizontalFactor * args.dimensions[1]
             /\ asciiHeight = VerticalFactor * args.dimensions[2]

ExplicitBesideWidthAndHeight ==
    /\ Returned /\ IsExplicit
    /\ args.width # 0 /\ args.height # 0
    /\ args.dimensions[1] = term.w - 1
    /\ args.dimensions[1] > 0 /\ args.dimensions[2] > 0
    /\ err = NoError
    /\ Len(imgSet) = VerticalFactor * args.dimensions[2]

(***************************************************************************)
(* C6, as stated: width and height both set (no dimensions, not full) is   *)
(* always rejected as an invalid request.                                  *)
(***************************************************************************)
BothAxesInvalidRequest ==
    (Returned /\ IsBoth) => (ErrorKind(err) = "InvalidRequest" /\ NoGrid)

(***************************************************************************)
(* C6, amended: width and height both set is always rejected, with no      *)
(* grid: as an invalid request when width <= terminal width - 1, and by    *)
(* the width check, which comes first, as a constraint violation when      *)
(* width > terminal width - 1.                                             *)
(***************************************************************************)
BothAxesRejected ==
    (Returned /\ IsBoth) =>
        /\ NoGrid
        /\ ErrorKind(err) = IF args.width > term.w - 1
                            THEN "ConstraintViolation"
                            ELSE "InvalidRequest"

BothAxesWithinSurface ==
    /\ Returned /\ IsBoth
    /\ args.width > 0 /\ args.width <= term.w - 1
    /\ args.height > 0
    /\ err = ErrBothSet

(***************************************************************************)
(* C7.  In Fill, ByWidth and the width fallback of Auto, a derived height  *)
(* of 0 is clamped to 1: the height passed to the final resize is never 0  *)
(* (stated for a positive width, so that the probe resize gave an image).  *)
(***************************************************************************)
DerivedHeightNeverZero ==
    (/\ Succeeded
     /\ IsFill \/ IsByWidth \/ (IsAuto /\ AutoWidthFromHeight >= term.w)
     /\ asciiWidth > 0) =>
        asciiHeight # 0

(***************************************************************************)
(* C8.  reverse with flipX twice, or with flipY twice, gives the original  *)
(* grid back; flipX and flipY in one call give what flipX then flipY, and  *)
(* flipY then flipX, give.                                                 *)
(***************************************************************************)
OnlyX == <<TRUE, FALSE>>
OnlyY == <<FALSE, TRUE>>

MirrorInvolution ==
    pc = "mirror" =>
        /\ (flips = <<OnlyX, OnlyX>> \/ flips = <<OnlyY, OnlyY>>) =>
               imgSet = grid0
        /\ (flips = <<OnlyX, OnlyY>> \/ flips = <<OnlyY, OnlyX>>) =>
               imgSet = reverse(grid0, TRUE, TRUE)

MirroredTwiceRagged ==
    /\ pc = "mirror"
    /\ flips = <<OnlyX, OnlyX>>
    /\ Len(grid0) = 3
    /\ Len(grid0[1]) = 3 /\ Len(grid0[2]) = 0 /\ Len(grid0[3]) = 2
    /\ imgSet = grid0

(***************************************************************************)
(* C9, as stated: the width a successful ByHeight(h) derived, passed back  *)
(* as ByWidth, resolves a height within 1 of h.                            *)
(***************************************************************************)
RoundTripWithinOne ==
    (pc = "done" /\ prev # <<>>) =>
        /\ err = NoError
        /\ Abs(resolved[2] - prev.height) <= 1

(***************************************************************************)
(* C9, amended: the height it resolves differs from h by at most the       *)
(* larger of 1 and image height / image width.                             *)
(***************************************************************************)
RoundTripWithinAspect ==
    (pc = "done" /\ prev # <<>>) =>
        /\ err = NoError
        /\ args.width = prev.width
        /\ \/ Abs(resolved[2] - prev.height) <= 1
           \/ img.w * Abs(resolved[2] - prev.height) <= img.h

RoundTripOfTallImage ==
    /\ pc = "done" /\ prev # <<>>
    /\ err = NoError
    /\ img.h > img.w
    /\ Abs(resolved[2] - prev.height) > 1

(***************************************************************************)
(* C10.  Without mirroring the grid has one row per pixel row of the       *)
(* resized image and one AsciiPixel per pixel column, in order; every      *)
(* component is the 16-bit channel divided by 257, truncated, and lies in  *)
(* 0..255; the three grayscale values are equal and charDepth is the       *)
(* first of them.                                                          *)
(***************************************************************************)
SampledCell(p, c) ==
    LET g16 == GrayRGBA(c)
        c16 == RGBA(c)
    IN  /\ p.rgbValue = <<c16[1] \div 257, c16[2] \div 257, c16[3] \div 257>>
        /\ p.grayscaleValue[1] = g16[1] \div 257
        /\ p.grayscaleValue[2] = p.grayscaleValue[1]
        /\ p.grayscaleValue[3] = p.grayscaleValue[1]
        /\ p.charDepth = p.grayscaleValue[1]
        /\ p.charDepth \in 0..255
        /\ \A i \in 1..3 : p.rgbValue[i] \in 0..255

====
